---- MODULE Spec2Model ----
(***************************************************************************)
(* Model of src/src/domain/LifeHistory.ts: the builder LifeHistory.initiate *)
(* and the mover LifeHistory.moveEvent over the decade / year / month /     *)
(* event structure.  Strings are sequences of one-character strings, so     *)
(* that date parsing and formatting are computed rather than assumed.       *)
(***************************************************************************)
EXTENDS Integers, Sequences, FiniteSets, TLC

VARIABLES birthDate, lifeHistory, now, call, calls

vars == <<birthDate, lifeHistory, now, call, calls>>

\* ---------------------------------------------------------------- bounds
MinBirthYear == 1994
MaxBirthYear == 2005
MaxClock == 1
MaxProbe == 2
MaxCalls == 1

\* ------------------------------------------------------------- text helpers
Digit(n) == <<"0", "1", "2", "3", "4", "5", "6", "7", "8", "9">>[n + 1]

IsDigit(c) == c \in {"0", "1", "2", "3", "4", "5", "6", "7", "8", "9"}

DigitValue(c) == CHOOSE n \in 0..9 : Digit(n) = c

RECURSIVE String(_)
String(n) == IF n < 10 THEN <<Digit(n)>> ELSE String(n \div 10) \o <<Digit(n % 10)>>

RECURSIVE padStart(_, _)
padStart(s, w) == IF Len(s) >= w THEN s ELSE padStart(<<"0">> \o s, w)

RECURSIVE Number(_)
Number(s) == IF s = <<>> THEN 0 ELSE 10 * Number(SubSeq(s, 1, Len(s) - 1)) + DigitValue(s[Len(s)])

\* longest run of at most max digits of s starting at position i
RECURSIVE TakeDigits(_, _, _)
TakeDigits(s, i, max) ==
  IF max = 0 \/ i > Len(s) \/ ~IsDigit(s[i]) THEN <<>>
  ELSE <<s[i]>> \o TakeDigits(s, i + 1, max - 1)

SkipDash(s, i) == IF i <= Len(s) /\ s[i] = "-" THEN i + 1 ELSE i

\* dayjs(str): year, 0-based month and day of a "YYYY-M-D" text
dayjs(s) ==
  LET y  == TakeDigits(s, 1, 4)
      i1 == SkipDash(s, 5)
      m  == TakeDigits(s, i1, 2)
      i2 == SkipDash(s, i1 + Len(m))
      d  == TakeDigits(s, i2, 2)
  IN [year  |-> Number(y),
      month |-> (IF m = <<>> THEN 1 ELSE Number(m)) - 1,
      date  |-> IF d = <<>> THEN 1 ELSE Number(d)]

FormatYYYYMM(d) == padStart(String(d.year), 4) \o <<"-">> \o padStart(String(d.month + 1), 2)

FormatYYYYMMDD(d) == FormatYYYYMM(d) \o <<"-">> \o padStart(String(d.date), 2)

Text(prefix, n) == prefix \o <<"-">> \o String(n)

Min(a, b) == IF a < b THEN a ELSE b

Max(a, b) == IF a > b THEN a ELSE b

UUID(n) == <<"uuid", n>>

\* ------------------------------------------------------------------ builder
maxAge == 80

\* number of crypto.randomUUID() calls made before the one for (year, month)
MonthsBefore(birthYear, birthMonth, year, startMonth, monthIndex) ==
  IF year = birthYear THEN monthIndex
  ELSE (12 - birthMonth + 1) + (year - birthYear - 1) * 12 + (startMonth - 1) + monthIndex

InitiateMonth(birthYear, birthMonth, year, startMonth, monthIndex, t) ==
  LET month == startMonth + monthIndex
  IN [id     |-> FormatYYYYMM(dayjs(String(year) \o <<"-">> \o String(month) \o <<"-", "0", "1">>)),
      month  |-> month,
      events |-> << [id         |-> UUID(MonthsBefore(birthYear, birthMonth, year, startMonth, monthIndex) + 1),
                     event_date |-> FormatYYYYMMDD(dayjs(String(year) \o <<"-">> \o String(month) \o <<"-", "1", "5">>)),
                     event_text |-> String(monthIndex),
                     updated_at |-> t,
                     user_id    |-> "string"] >>]

\* the end month taken as the birth month itself
EndMonth_Inclusive(birthMonth) == birthMonth

\* the end month without the wrap to December
EndMonth_NoWrap(birthMonth) == birthMonth - 1

EndMonth(birthMonth) == IF birthMonth - 1 # 0 THEN birthMonth - 1 ELSE 12

InitiateYear(birthYear, birthMonth, year, t) ==
  LET startMonth == IF year = birthYear THEN birthMonth ELSE 1
      endMonth   == IF year = birthYear + maxAge THEN EndMonth(birthMonth) ELSE 12
  IN [id     |-> Text(<<"y", "e", "a", "r">>, year),
      year   |-> year,
      months |-> [k \in 1..Max(endMonth - startMonth + 1, 0) |->
                    InitiateMonth(birthYear, birthMonth, year, startMonth, k - 1, t)]]

\* a decade that runs eleven years
InitiateDecade_ElevenYears(birthYear, birthMonth, startDecade, decadeIndex, t) ==
  LET maxYear           == birthYear + maxAge
      decade            == startDecade + decadeIndex
      decadeStartYear   == decade * 10
      decadeEndYear     == decadeStartYear + 10
      startYearInDecade == Max(birthYear, decadeStartYear)
      endYearInDecade   == Min(maxYear, decadeEndYear)
  IN [id     |-> Text(<<"d", "e", "c", "a", "d", "e">>, decade),
      decade |-> decadeIndex + 1,
      years  |-> [k \in 1..Max(endYearInDecade - startYearInDecade + 1, 0) |->
                    InitiateYear(birthYear, birthMonth, startYearInDecade + k - 1, t)]]

InitiateDecade(birthYear, birthMonth, startDecade, decadeIndex, t) ==
  LET maxYear           == birthYear + maxAge
      decade            == startDecade + decadeIndex
      decadeStartYear   == decade * 10
      decadeEndYear     == decadeStartYear + 9
      startYearInDecade == Max(birthYear, decadeStartYear)
      endYearInDecade   == Min(maxYear, decadeEndYear)
  IN [id     |-> Text(<<"d", "e", "c", "a", "d", "e">>, decade),
      decade |-> decadeIndex + 1,
      years  |-> [k \in 1..Max(endYearInDecade - startYearInDecade + 1, 0) |->
                    InitiateYear(birthYear, birthMonth, startYearInDecade + k - 1, t)]]

\* LifeHistory.initiate(birthDate) at time t; <<>> stands for null / ""
initiate(bd, t) ==
  IF bd = <<>> THEN <<>>
  ELSE LET birthDateDayjs == dayjs(bd)
           birthYear      == birthDateDayjs.year
           birthMonth     == birthDateDayjs.month + 1
           maxYear        == birthYear + maxAge
           startDecade    == birthYear \div 10
           endDecade      == maxYear \div 10
           decadeCount    == endDecade - startDecade + 1
       IN [k \in 1..decadeCount |-> InitiateDecade(birthYear, birthMonth, startDecade, k - 1, t)]

\* -------------------------------------------------------------------- mover
Null == <<>>

MonthAt(lh, p) == lh[p[1]].years[p[2]].months[p[3]]

YearHas(year, id) == \E m \in DOMAIN year.months : year.months[m].id = id

DecadeHas(decade, id) == \E y \in DOMAIN decade.years : YearHas(decade.years[y], id)

\* first decade / year / month, in iteration order, whose month id is id,
\* as the indices <<decade, year, month>>; Null when no month has that id
findEntities(lh, id) ==
  IF \A d \in DOMAIN lh : ~DecadeHas(lh[d], id) THEN Null
  ELSE LET d == CHOOSE i \in DOMAIN lh :
                  DecadeHas(lh[i], id) /\ \A j \in 1..(i - 1) : ~DecadeHas(lh[j], id)
           y == CHOOSE i \in DOMAIN lh[d].years :
                  /\ YearHas(lh[d].years[i], id)
                  /\ \A j \in 1..(i - 1) : ~YearHas(lh[d].years[j], id)
           m == CHOOSE i \in DOMAIN lh[d].years[y].months :
                  /\ lh[d].years[y].months[i].id = id
                  /\ \A j \in 1..(i - 1) : lh[d].years[y].months[j].id # id
       IN <<d, y, m>>

\* index of the first event of the list whose id is eventId, 0 when there is
\* none (Array.prototype.find)
FindEvent(events, eventId) ==
  LET hits == {i \in DOMAIN events : events[i].id = eventId}
  IN IF hits = {} THEN 0
     ELSE CHOOSE i \in hits : \A j \in hits : i <= j

\* the copy keeps the event's old updated_at
UpdatedEvent_StaleTime(eventToMove, targetMonthId, t) ==
  LET targetDate == dayjs(targetMonthId \o <<"-", "1", "5">>)
  IN [eventToMove EXCEPT !.event_date = FormatYYYYMMDD(targetDate)]

\* the copy keeps the event's old event_date
UpdatedEvent_KeepsDate(eventToMove, targetMonthId, t) ==
  [eventToMove EXCEPT !.updated_at = t]

UpdatedEvent(eventToMove, targetMonthId, t) ==
  LET targetDate == dayjs(targetMonthId \o <<"-", "1", "5">>)
  IN [eventToMove EXCEPT !.event_date = FormatYYYYMMDD(targetDate),
                         !.updated_at = t]

\* the filter that removes nothing
FilterEvents_KeepAll(events, eventId) == events

FilterEvents(events, eventId) == SelectSeq(events, LAMBDA e : e.id # eventId)

\* the updated event put first
AppendEvent_Prepend(events, updatedEvent) == <<updatedEvent>> \o events

AppendEvent(events, updatedEvent) == Append(events, updatedEvent)

\* first pass: lifeHistory.map down to the source month, whose list is filtered
RemoveFromSource(lh, sourceEntities, idMonthSource, eventId) ==
  [d \in DOMAIN lh |->
     IF lh[d].id # lh[sourceEntities[1]].id THEN lh[d]
     ELSE [lh[d] EXCEPT !.years =
             [y \in DOMAIN lh[d].years |->
                IF lh[d].years[y].id # lh[sourceEntities[1]].years[sourceEntities[2]].id
                THEN lh[d].years[y]
                ELSE [lh[d].years[y] EXCEPT !.months =
                        [m \in DOMAIN lh[d].years[y].months |->
                           IF lh[d].years[y].months[m].id # idMonthSource
                           THEN lh[d].years[y].months[m]
                           ELSE [lh[d].years[y].months[m] EXCEPT
                                   !.events = FilterEvents(@, eventId)]]]]]]

\* the second pass run over the original structure
AddToTarget_FromOriginal(updatedLifeHistory, lh, targetEntities, idMonthTarget, updatedEvent) ==
  [d \in DOMAIN lh |->
     IF lh[d].id # lh[targetEntities[1]].id THEN lh[d]
     ELSE [lh[d] EXCEPT !.years =
             [y \in DOMAIN lh[d].years |->
                IF lh[d].years[y].id # lh[targetEntities[1]].years[targetEntities[2]].id
                THEN lh[d].years[y]
                ELSE [lh[d].years[y] EXCEPT !.months =
                        [m \in DOMAIN lh[d].years[y].months |->
                           IF lh[d].years[y].months[m].id # idMonthTarget
                           THEN lh[d].years[y].months[m]
                           ELSE [lh[d].years[y].months[m] EXCEPT
                                   !.events = AppendEvent(@, updatedEvent)]]]]]]

\* the second pass without the month id test
AddToTarget_WholeYear(updatedLifeHistory, lh, targetEntities, idMonthTarget, updatedEvent) ==
  [d \in DOMAIN updatedLifeHistory |->
     IF updatedLifeHistory[d].id # lh[targetEntities[1]].id THEN updatedLifeHistory[d]
     ELSE [updatedLifeHistory[d] EXCEPT !.years =
             [y \in DOMAIN updatedLifeHistory[d].years |->
                IF updatedLifeHistory[d].years[y].id
                     # lh[targetEntities[1]].years[targetEntities[2]].id
                THEN updatedLifeHistory[d].years[y]
                ELSE [updatedLifeHistory[d].years[y] EXCEPT !.months =
                        [m \in DOMAIN updatedLifeHistory[d].years[y].months |->
                           [updatedLifeHistory[d].years[y].months[m] EXCEPT
                              !.events = AppendEvent(@, updatedEvent)]]]]]]

\* second pass: updatedLifeHistory.map down to the target month, whose list
\* gets the updated event appended
AddToTarget(updatedLifeHistory, lh, targetEntities, idMonthTarget, updatedEvent) ==
  [d \in DOMAIN updatedLifeHistory |->
     IF updatedLifeHistory[d].id # lh[targetEntities[1]].id THEN updatedLifeHistory[d]
     ELSE [updatedLifeHistory[d] EXCEPT !.years =
             [y \in DOMAIN updatedLifeHistory[d].years |->
                IF updatedLifeHistory[d].years[y].id
                     # lh[targetEntities[1]].years[targetEntities[2]].id
                THEN updatedLifeHistory[d].years[y]
                ELSE [updatedLifeHistory[d].years[y] EXCEPT !.months =
                        [m \in DOMAIN updatedLifeHistory[d].years[y].months |->
                           IF updatedLifeHistory[d].years[y].months[m].id # idMonthTarget
                           THEN updatedLifeHistory[d].years[y].months[m]
                           ELSE [updatedLifeHistory[d].years[y].months[m] EXCEPT
                                   !.events = AppendEvent(@, updatedEvent)]]]]]]

\* what console.error receives on the two early returns; NoLog when silent
NoLog == "none"

LogNotFound == "Source or target entities not found"

LogNoEvent == "Event not found in source month"

\* the source month emptied of the event before the target is looked up
moveEvent_RemoveFirst(eventId, lh, idMonthSource, idMonthTarget, t) ==
  LET sourceEntities == findEntities(lh, idMonthSource)
      targetEntities == findEntities(lh, idMonthTarget)
  IN IF sourceEntities = Null THEN [result |-> lh, log |-> LogNotFound]
     ELSE IF targetEntities = Null
     THEN [result |-> RemoveFromSource(lh, sourceEntities, idMonthSource, eventId),
           log    |-> LogNotFound]
     ELSE LET found == FindEvent(MonthAt(lh, sourceEntities).events, eventId)
          IN IF found = 0 THEN [result |-> lh, log |-> LogNoEvent]
             ELSE LET eventToMove  == MonthAt(lh, sourceEntities).events[found]
                      updatedEvent == UpdatedEvent(eventToMove, MonthAt(lh, targetEntities).id, t)
                      updatedLifeHistory ==
                        RemoveFromSource(lh, sourceEntities, idMonthSource, eventId)
                  IN [result |-> AddToTarget(updatedLifeHistory, lh, targetEntities,
                                             idMonthTarget, updatedEvent),
                      log    |-> NoLog]

\* LifeHistory.moveEvent({event, lifeHistory, sourceMonth, targetMonth}) at
\* time t: the returned structure and the diagnostic that was logged
moveEvent(eventId, lh, idMonthSource, idMonthTarget, t) ==
  LET sourceEntities == findEntities(lh, idMonthSource)
      targetEntities == findEntities(lh, idMonthTarget)
  IN IF sourceEntities = Null \/ targetEntities = Null
     THEN [result |-> lh, log |-> LogNotFound]
     ELSE LET found == FindEvent(MonthAt(lh, sourceEntities).events, eventId)
          IN IF found = 0 THEN [result |-> lh, log |-> LogNoEvent]
             ELSE LET eventToMove  == MonthAt(lh, sourceEntities).events[found]
                      updatedEvent == UpdatedEvent(eventToMove, MonthAt(lh, targetEntities).id, t)
                      updatedLifeHistory ==
                        RemoveFromSource(lh, sourceEntities, idMonthSource, eventId)
                  IN [result |-> AddToTarget(updatedLifeHistory, lh, targetEntities,
                                             idMonthTarget, updatedEvent),
                      log    |-> NoLog]

\* ------------------------------------------------------------ state machine
\* birthDate   : the birth date the structure was built from, <<>> for none
\* lifeHistory : the structure the application holds
\* now         : the clock dayjs() reads, in seconds
\* call        : the latest call, its arguments and what it logged
\* calls       : number of moveEvent calls made so far
DateText(y, m, d) == FormatYYYYMMDD([year |-> y, month |-> m - 1, date |-> d])

\* birth dates handed to the builder
BirthDates == {DateText(y, m, 15) : y \in MinBirthYear..MaxBirthYear, m \in 1..12}

\* birth dates of the structures the mover is run on; <<>> is "no birth date"
MoveBirthDates ==
  {<<>>, DateText(2000, 6, 15), DateText(1999, 12, 15), DateText(2000, 12, 15),
   DateText(2001, 1, 15)}

RECURSIVE Flatten(_)
Flatten(ss) == IF ss = <<>> THEN <<>> ELSE Flatten(SubSeq(ss, 1, Len(ss) - 1)) \o ss[Len(ss)]

AbsentMonthId == <<"0", "0", "0", "0", "-", "0", "0">>

\* the months of the first two years of the structure
LeadingMonths(lh) ==
  LET ys == Flatten([d \in 1..Min(2, Len(lh)) |-> lh[d].years])
  IN Flatten([i \in 1..Min(2, Len(ys)) |-> ys[i].months])

\* month ids the caller passes: those of the leading months and one absent id
ProbeMonthIds(lh) ==
  LET ms == LeadingMonths(lh)
  IN {ms[i].id : i \in 1..Min(MaxProbe, Len(ms))} \cup {AbsentMonthId}

\* event ids the caller passes: the placeholders of the leading months and
\* one id that was never generated
ProbeEventIds == {UUID(n) : n \in 0..MaxProbe}

NoCall(op) ==
  [op |-> op, eventId |-> <<>>, idMonthSource |-> <<>>, idMonthTarget |-> <<>>,
   log |-> NoLog]

\* the application before a birth date is known: initiate() with the default
InitBuild ==
  /\ birthDate = <<>>
  /\ now = 0
  /\ lifeHistory = initiate(<<>>, 0)
  /\ call = NoCall("initiate")
  /\ calls = 0

\* the application holding the structure built from a birth date
Init ==
  /\ birthDate \in MoveBirthDates
  /\ now = 0
  /\ lifeHistory = initiate(birthDate, now)
  /\ call = NoCall("initiate")
  /\ calls = 0

Initiate ==
  /\ birthDate = <<>>
  /\ \E bd \in BirthDates :
       /\ birthDate' = bd
       /\ lifeHistory' = initiate(bd, now)
  /\ call' = NoCall("initiate")
  /\ UNCHANGED <<now, calls>>

MoveEvent ==
  /\ calls < MaxCalls
  /\ LET monthIds == ProbeMonthIds(lifeHistory)
     IN \E eventId \in ProbeEventIds, idMonthSource \in monthIds, idMonthTarget \in monthIds :
          LET r == moveEvent(eventId, lifeHistory, idMonthSource, idMonthTarget, now)
          IN /\ lifeHistory' = r.result
             /\ call' = [op |-> "moveEvent", eventId |-> eventId,
                         idMonthSource |-> idMonthSource,
                         idMonthTarget |-> idMonthTarget, log |-> r.log]
  /\ calls' = calls + 1
  /\ UNCHANGED <<birthDate, now>>

Tick ==
  /\ now < MaxClock
  /\ now' = now + 1
  /\ UNCHANGED <<birthDate, lifeHistory, call, calls>>

NextBuild == Initiate

Next == MoveEvent \/ Tick

SpecBuild == InitBuild /\ [][NextBuild]_vars

Spec == Init /\ [][Next]_vars

\* ------------------------------------------------------- views of a structure
AllYears(lh) == Flatten([d \in DOMAIN lh |-> lh[d].years])

\* every month of the structure in order, with the year that owns it
AllMonths(lh) ==
  LET ys == AllYears(lh)
  IN Flatten([i \in DOMAIN ys |->
                [k \in DOMAIN ys[i].months |->
                   [year |-> ys[i].year, month |-> ys[i].months[k].month,
                    id |-> ys[i].months[k].id, events |-> ys[i].months[k].events]]])

EventsOfYear(year) == Flatten([m \in DOMAIN year.months |-> year.months[m].events])

EventsOfDecade(decade) ==
  Flatten([y \in DOMAIN decade.years |-> EventsOfYear(decade.years[y])])

\* every event of the structure, in order
AllEvents(lh) == Flatten([d \in DOMAIN lh |-> EventsOfDecade(lh[d])])

\* number of events of every month
EventCounts(lh) ==
  [d \in DOMAIN lh |->
     [y \in DOMAIN lh[d].years |->
        [m \in DOMAIN lh[d].years[y].months |-> Len(lh[d].years[y].months[m].events)]]]

\* the structure without the event lists of the months named in ids
Except(lh, ids) ==
  [d \in DOMAIN lh |->
     [id |-> lh[d].id, decade |-> lh[d].decade,
      years |-> [y \in DOMAIN lh[d].years |->
                   [id |-> lh[d].years[y].id, year |-> lh[d].years[y].year,
                    months |-> [m \in DOMAIN lh[d].years[y].months |->
                                  [id     |-> lh[d].years[y].months[m].id,
                                   month  |-> lh[d].years[y].months[m].month,
                                   events |-> IF lh[d].years[y].months[m].id \in ids
                                              THEN <<>>
                                              ELSE lh[d].years[y].months[m].events]]]]]]

YearHolds(year, ids) == \E m \in DOMAIN year.months : year.months[m].id \in ids

DecadeHolds(decade, ids) == \E y \in DOMAIN decade.years : YearHolds(decade.years[y], ids)

\* some month of the structure has the id
HasMonth(lh, id) == \E d \in DOMAIN lh : DecadeHolds(lh[d], {id})

\* the month with the id (ids are unique), with the year that owns it
MonthById(lh, id) ==
  LET d == CHOOSE i \in DOMAIN lh : DecadeHolds(lh[i], {id})
      y == CHOOSE i \in DOMAIN lh[d].years : YearHolds(lh[d].years[i], {id})
      m == CHOOSE i \in DOMAIN lh[d].years[y].months : lh[d].years[y].months[i].id = id
  IN [year   |-> lh[d].years[y].year,
      month  |-> lh[d].years[y].months[m].month,
      id     |-> id,
      events |-> lh[d].years[y].months[m].events]

EventIds(events) == {events[i].id : i \in DOMAIN events}

Last(seq) == seq[Len(seq)]

\* "YYYY-MM-15" written from the numbers of a year and a month
Fifteenth(year, month) ==
  padStart(String(year), 4) \o <<"-">> \o padStart(String(month), 2) \o <<"-", "1", "5">>

BirthYearOf(bd) == Number(SubSeq(bd, 1, 4))

BirthMonthOf(bd) == Number(SubSeq(bd, 6, 7))

Built == birthDate # <<>>

\* (year, month) pairs in calendar order
NotAfter(y1, m1, y2, m2) == y1 < y2 \/ (y1 = y2 /\ m1 <= m2)

NextMonth(y1, m1, y2, m2) ==
  \/ y2 = y1 /\ m2 = m1 + 1
  \/ y2 = y1 + 1 /\ m1 = 12 /\ m2 = 1

\* ------------------------------------------------------------------- builder
\* C1 (as stated): every birth date yields 80*12 + 1 = 961 months, whatever
\* the birth month.
C1_AsStated == Built => Len(AllMonths(lifeHistory)) = 80 * 12 + 1

\* C1 (amended): the number of months emitted by initiate is 80*12 = 960 when
\* the birth month is February..December and 80*12 + 12 = 972 when it is
\* January; initiate("2000-06-15") emits 960 months.
C1_MonthCount ==
  Built => Len(AllMonths(lifeHistory)) =
             IF BirthMonthOf(birthDate) = 1 THEN 80 * 12 + 12 ELSE 80 * 12

C1_Witness ==
  /\ birthDate = DateText(2000, 6, 15)
  /\ Len(AllMonths(lifeHistory)) = 960

\* C2: the emitted months span exactly from (BY, BM) to (BY+80, BM-1), or to
\* (BY+80, 12) when BM = 1: first, last, and nothing before or after.
C2_Span ==
  Built =>
    LET ms == AllMonths(lifeHistory)
        by == BirthYearOf(birthDate)
        bm == BirthMonthOf(birthDate)
        em == IF bm = 1 THEN 12 ELSE bm - 1
    IN /\ ms # <<>>
       /\ ms[1].year = by /\ ms[1].month = bm
       /\ Last(ms).year = by + 80 /\ Last(ms).month = em
       /\ \A i \in DOMAIN ms :
            /\ NotAfter(by, bm, ms[i].year, ms[i].month)
            /\ NotAfter(ms[i].year, ms[i].month, by + 80, em)

C2_Witness ==
  /\ Built
  /\ BirthMonthOf(birthDate) = 1
  /\ Last(AllMonths(lifeHistory)).month = 12
  /\ Last(AllMonths(lifeHistory)).year = BirthYearOf(birthDate) + 80

\* absolute decade number written in a decade id "decade-N"
DecadeNumber(id) == Number(SubSeq(id, 8, Len(id)))

\* C3: decades, years and months are strictly ascending and contiguous, with
\* no empty decade or year and no gap between the first and the last month.
C3_Contiguous ==
  Built =>
    LET lh == lifeHistory
        ys == AllYears(lh)
        ms == AllMonths(lh)
    IN /\ \A d \in DOMAIN lh : lh[d].years # <<>>
       /\ \A d \in DOMAIN lh : d > 1 =>
            DecadeNumber(lh[d].id) = DecadeNumber(lh[d - 1].id) + 1
       /\ \A i \in DOMAIN ys : ys[i].months # <<>>
       /\ \A i \in DOMAIN ys : i > 1 => ys[i].year = ys[i - 1].year + 1
       /\ \A i \in DOMAIN ms : i > 1 =>
            NextMonth(ms[i - 1].year, ms[i - 1].month, ms[i].year, ms[i].month)

C3_Witness ==
  /\ Built
  /\ BirthYearOf(birthDate) % 10 = 9
  /\ BirthMonthOf(birthDate) = 12
  /\ Len(lifeHistory) = 9
  /\ Len(lifeHistory[1].years) = 1
  /\ Len(lifeHistory[1].years[1].months) = 1

\* --------------------------------------------------------------------- mover
\* the step just taken is a moveEvent call
Called == calls' = calls + 1

\* the event eventId is in the event list of the month idMonth of lh
Present(lh, eventId, idMonth) ==
  /\ HasMonth(lh, idMonth)
  /\ eventId \in EventIds(MonthById(lh, idMonth).events)

Others(events, eventId) == SelectSeq(events, LAMBDA e : e.id # eventId)

\* C4: moving an event present in month A to an existing month B, A # B:
\* A loses exactly that event, B gains one, the moved event is last in B and
\* its event_date is the 15th of B's year and month.
C4_MoveAcross ==
  [][(/\ Called
      /\ call'.idMonthSource # call'.idMonthTarget
      /\ Present(lifeHistory, call'.eventId, call'.idMonthSource)
      /\ HasMonth(lifeHistory, call'.idMonthTarget))
     => LET A  == MonthById(lifeHistory, call'.idMonthSource)
            B  == MonthById(lifeHistory, call'.idMonthTarget)
            A2 == MonthById(lifeHistory', call'.idMonthSource)
            B2 == MonthById(lifeHistory', call'.idMonthTarget)
        IN /\ Len(A2.events) = Len(A.events) - 1
           /\ call'.eventId \notin EventIds(A2.events)
           /\ Len(B2.events) = Len(B.events) + 1
           /\ Last(B2.events).id = call'.eventId
           /\ Last(B2.events).event_date = Fifteenth(B.year, B.month)]_vars

C4_Witness ==
  /\ call.op = "moveEvent"
  /\ call.log = NoLog
  /\ call.idMonthSource # call.idMonthTarget
  /\ Last(MonthById(lifeHistory, call.idMonthTarget).events).id = call.eventId
  /\ Len(MonthById(lifeHistory, call.idMonthTarget).events) = 2

\* the first call on the structure built from 2000-06-15 moves the event of
\* month "2000-06" to month "2000-07"
C5_Case ==
  /\ birthDate = DateText(2000, 6, 15)
  /\ calls = 1
  /\ call.op = "moveEvent"
  /\ call.eventId = UUID(1)
  /\ call.idMonthSource = <<"2", "0", "0", "0", "-", "0", "6">>
  /\ call.idMonthTarget = <<"2", "0", "0", "0", "-", "0", "7">>

\* C5 (as stated): after that move the source month has 0 events and the
\* target month has 1 event, dated "2000-07-15".
C5_AsStated ==
  C5_Case =>
    LET A == MonthById(lifeHistory, call.idMonthSource)
        B == MonthById(lifeHistory, call.idMonthTarget)
    IN /\ Len(A.events) = 0
       /\ Len(B.events) = 1
       /\ B.events[1].event_date = DateText(2000, 7, 15)

\* C5 (amended): after that move the source month has 0 events and the target
\* month has 2 events: its own placeholder, then the moved event, whose
\* event_date is "2000-07-15".
C5_Example ==
  C5_Case =>
    LET A == MonthById(lifeHistory, call.idMonthSource)
        B == MonthById(lifeHistory, call.idMonthTarget)
    IN /\ Len(A.events) = 0
       /\ Len(B.events) = 2
       /\ B.events[1].id = UUID(2)
       /\ B.events[2].id = UUID(1)
       /\ B.events[2].event_date = DateText(2000, 7, 15)

C5_Witness == C5_Case /\ call.log = NoLog

\* C6: on a lookup miss (source month id absent, target month id absent, or
\* event id not in the source month's list) the structure is returned
\* unchanged.
C6_MissUnchanged ==
  [][(/\ Called
      /\ \/ ~HasMonth(lifeHistory, call'.idMonthSource)
         \/ ~HasMonth(lifeHistory, call'.idMonthTarget)
         \/ ~Present(lifeHistory, call'.eventId, call'.idMonthSource))
     => lifeHistory' = lifeHistory]_vars

\* an event id that lives in another month than the named source month
C6_Witness ==
  /\ call.op = "moveEvent"
  /\ call.log = LogNoEvent
  /\ HasMonth(lifeHistory, call.idMonthTarget)
  /\ \E i \in DOMAIN AllEvents(lifeHistory) : AllEvents(lifeHistory)[i].id = call.eventId

C8_Frame ==
  [][(/\ Called
      /\ Present(lifeHistory, call'.eventId, call'.idMonthSource)
      /\ HasMonth(lifeHistory, call'.idMonthTarget))
     => LET ids == {call'.idMonthSource, call'.idMonthTarget}
        IN /\ Except(lifeHistory', ids) = Except(lifeHistory, ids)
           /\ \A d \in DOMAIN lifeHistory :
                /\ ~DecadeHolds(lifeHistory[d], ids) => lifeHistory'[d] = lifeHistory[d]
                /\ \A y \in DOMAIN lifeHistory[d].years :
                     ~YearHolds(lifeHistory[d].years[y], ids)
                       => lifeHistory'[d].years[y] = lifeHistory[d].years[y]]_vars

\* a successful move whose source and target months lie in different decades
C8_Witness ==
  /\ call.op = "moveEvent"
  /\ call.log = NoLog
  /\ SubSeq(call.idMonthSource, 1, 3) # SubSeq(call.idMonthTarget, 1, 3)

====
